---------------------------- MODULE Spec2Model ----------------------------
(***************************************************************************)
(* Model of the real-time messaging layer of src/asgi.py: token-gated      *)
(* connection admission, per-connection sessions, room membership and      *)
(* persist-then-broadcast message intake.                                  *)
(*                                                                         *)
(* The socketio.AsyncServer object `sio` is used through its calls         *)
(* save_session / get_session / enter_room / leave_room / emit; each is    *)
(* modelled by the effect its name and the library's documentation give    *)
(* it (the session of a sid, the set of sids of a room, one event put on   *)
(* the channel of every sid of the room).  On disconnect the library       *)
(* itself takes the sid out of every room and drops its session; the       *)
(* handler of src/asgi.py adds nothing to that.  save_session and          *)
(* get_session are called without `await` in the source; they are taken    *)
(* to act at the call, as the handlers that use their result expect.       *)
(*                                                                         *)
(* Every handler runs without a suspension point between db.commit() and   *)
(* the membership snapshot taken by sio.emit, so a handler is one action.  *)
(*                                                                         *)
(* Spec has the socket handlers with sio.emit as one step.  FanoutSpec     *)
(* takes sio.emit step by step (the snapshot, then one delivery per sid),  *)
(* for the properties of an emit in progress.  HttpSpec adds the endpoints *)
(* of src/main.py that write or read the messages table.  FlaskSpec is the *)
(* token_required decorator of src/flask_app.py with two of its routes.    *)
(* In FanoutSpec a send handler holds its database session from            *)
(* SessionLocal() until sio.emit is over; open_db follows these sessions.  *)
(***************************************************************************)
EXTENDS Integers, Sequences, FiniteSets, TLC

\* ------------------------------------------------------------- bounds
NumConns == 2
MaxMsgs  == 2

\* ------------------------------------------------------------- values
\* Python's None, for a field (of a token payload, of a record) that is absent.
None == 0 - 1

Conns  == 1..NumConns
Users  == {1, 2}
Orders == {1}

\* str(v) as the f-strings of asgi.py format an id into a room name.
Str(v) ==
    CASE v = None -> "None"
      [] v = 0 -> "0"
      [] v = 1 -> "1"
      [] v = 2 -> "2"
      [] OTHER -> "n"

\* f"user_{user_id}" and f"order_{order_id}"
user_room(uid)  == <<"user_", Str(uid)>>
order_room(oid) == <<"order_", Str(oid)>>

AllRooms == {user_room(u) : u \in Users \cup {None}} \cup {order_room(o) : o \in Orders}

\* Python truthiness of an id-like value: None and 0 are falsy.
Truthy(v) == v # None /\ v # 0

\* --------------------------------------------------------------- text
\* A text is a sequence of characters; " " is the whitespace character.
RECURSIVE LStrip(_)
LStrip(s) == IF s # <<>> /\ Head(s) = " " THEN LStrip(Tail(s)) ELSE s

RECURSIVE RStrip(_)
RStrip(s) ==
    IF s # <<>> /\ s[Len(s)] = " " THEN RStrip(SubSeq(s, 1, Len(s) - 1)) ELSE s

\* strip left out: the text is taken as it was sent.
strip_left_out(s) == s

\* str.strip()
strip(s) == RStrip(LStrip(s))


\* ------------------------------------------------------------- tokens
\* settings.jwt_secret
jwt_secret == "CHANGE_ME_SECRET"

\* A credential string as jwt.decode sees it: well-formed or not, the key
\* that signed it, past its exp or not, and the user_id of its payload
\* (None when the payload has none).
Token(wf, key, expired, uid) ==
    [wf |-> wf, key |-> key, expired |-> expired, user_id |-> uid]

\* The auth argument of connect: a dict or not, holding a non-empty token or not.
Auth(isdict, hastoken, token) ==
    [isdict |-> isdict, hastoken |-> hastoken, token |-> token]

GoodToken(uid) == Token(TRUE, jwt_secret, FALSE, uid)

AuthVals ==
    {Auth(FALSE, FALSE, GoodToken(1)),                  \* auth is not a dict
     Auth(TRUE, FALSE, GoodToken(1)),                   \* no token, or an empty one
     Auth(TRUE, TRUE, Token(FALSE, jwt_secret, FALSE, 1)),   \* malformed
     Auth(TRUE, TRUE, Token(TRUE, "other", FALSE, 1)),       \* signed with another key
     Auth(TRUE, TRUE, Token(TRUE, jwt_secret, TRUE, 1))}     \* expired
        \cup {Auth(TRUE, TRUE, GoodToken(u)) : u \in Users \cup {None}}

\* The username claim that create_access_token puts beside a user_id.
UsernameOf(uid) ==
    CASE uid = 1 -> "alice"
      [] uid = 2 -> "bob"
      [] OTHER -> "None"

\* jwt_decode without the check of exp.
jwt_decode_no_exp(token) ==
    IF token.wf /\ token.key = jwt_secret
    THEN [ok |-> TRUE, user_id |-> token.user_id, username |-> UsernameOf(token.user_id)]
    ELSE [ok |-> FALSE, user_id |-> None, username |-> "None"]

\* jwt.decode(token, settings.jwt_secret, algorithms=[...]): the payload, or
\* an exception for a malformed, wrongly signed or expired token.
jwt_decode(token) ==
    IF token.wf /\ token.key = jwt_secret /\ ~token.expired
    THEN [ok |-> TRUE, user_id |-> token.user_id, username |-> UsernameOf(token.user_id)]
    ELSE [ok |-> FALSE, user_id |-> None, username |-> "None"]

\* ----------------------------------------------------------- payloads
\* The text field of a send payload: a string, absent, null, or not a string.
Text(kind, val) == [kind |-> kind, val |-> val]
GoodTexts == {Text("str", <<" ", "a", " ">>)}
BadTexts ==
    {Text("str", <<>>), Text("str", <<" ">>), Text("absent", <<>>),
     Text("null", <<>>), Text("int", <<>>)}

\* What a client may put in order_id and client_message_id.
OrderIdVals == {None, 0} \cup Orders
CmidVals    == {None, 0, 7}

\* The data argument of a handler.
Data(isdict, order_id, text, cmid) ==
    [isdict |-> isdict, order_id |-> order_id, text |-> text,
     client_message_id |-> cmid]

NotDict == Data(FALSE, None, Text("absent", <<>>), None)

\* join_order_room / leave_order_room: anything, or a dict with some order_id.
RoomData ==
    {NotDict} \cup {Data(TRUE, o, Text("absent", <<>>), None) : o \in OrderIdVals}

\* send_message / send_user_message: well-formed sends, and one payload for
\* each way a send can be malformed.
SendData ==
    {NotDict}
        \cup {Data(TRUE, o, t, x) : o \in Orders, t \in GoodTexts, x \in CmidVals}
        \cup {Data(TRUE, 1, t, 7) : t \in BadTexts}
        \cup {Data(TRUE, o, Text("str", <<"b">>), 7) : o \in {None, 0}}

\* -------------------------------------------------------------- state
VARIABLES
    status,       \* per connection: "new", "open", "refused", "closed"
    session,      \* sio's session of each sid
    rooms,        \* sio's rooms: room name -> set of sids
    store,        \* the messages table, in commit order
    inbox,        \* per connection: the events put on its channel, in order
    raised,       \* the exception that left the latest handler, or "none"
    commitFailed, \* db.commit() raised in the latest handler
    badAuth,      \* per connection: connect was called with an invalid credential
    pending,      \* per connection: the events an emit in progress still has to
                  \* hand to its channel, in order (empty when emit is one step)
    response,     \* the latest response of the Flask app
    open_db       \* the database sessions that are open, each with the handler
                  \* that opened it (empty between handlers that run in one step)

vars == <<status, session, rooms, store, inbox, raised, commitFailed, badAuth,
          pending, response, open_db>>

\* No request has been answered yet.
NoResponse == [code |-> 0, error |-> "", ran |-> "none"]

NoSession == [present |-> FALSE, user_id |-> None, username |-> "None"]

Init ==
    /\ status = [c \in Conns |-> "new"]
    /\ session = [c \in Conns |-> NoSession]
    /\ rooms = [r \in AllRooms |-> {}]
    /\ store = <<>>
    /\ inbox = [c \in Conns |-> <<>>]
    /\ raised = "none"
    /\ commitFailed = FALSE
    /\ badAuth = [c \in Conns |-> FALSE]
    /\ pending = [c \in Conns |-> <<>>]
    /\ response = NoResponse
    /\ open_db = {}

\* A credential is valid when it is present, well-formed, signed with the
\* shared secret and not expired.
ValidAuth(auth) ==
    /\ auth.isdict
    /\ auth.hastoken
    /\ auth.token.wf
    /\ auth.token.key = jwt_secret
    /\ ~auth.token.expired

\* The handler returned (early or at its end) without an exception.
Returned == raised' = "none" /\ commitFailed' = FALSE

\* sio.get_session(sid)
get_session(c) == session[c]

\* sio.enter_room(sid, room) / sio.leave_room(sid, room)
enter_room(c, room) == [rooms EXCEPT ![room] = @ \cup {c}]
leave_room(c, room) == [rooms EXCEPT ![room] = @ \ {c}]

\* ------------------------------------------------------------ connect
connect(c, auth) ==
    /\ status[c] = "new"
    /\ IF c = 1 THEN TRUE ELSE status[c - 1] # "new"   \* sids are handed out in order
    /\ badAuth' = [badAuth EXCEPT ![c] = ~ValidAuth(auth)]
    /\ LET hasTok == auth.isdict /\ auth.hastoken
           d == jwt_decode(auth.token)
       IN  IF ~hasTok \/ ~d.ok
           THEN /\ status' = [status EXCEPT ![c] = "refused"]
                /\ session' = session
           ELSE /\ status' = [status EXCEPT ![c] = "open"]
                /\ session' = [session EXCEPT ![c] =
                       [present |-> TRUE, user_id |-> d.user_id, username |-> d.username]]
    /\ Returned
    /\ UNCHANGED <<rooms, store, inbox, pending, response, open_db>>

\* disconnect that leaves the sid in its rooms.
disconnect_keep_rooms(c) ==
    /\ status[c] = "open"
    /\ status' = [status EXCEPT ![c] = "closed"]
    /\ session' = [session EXCEPT ![c] = NoSession]
    /\ Returned
    /\ UNCHANGED <<rooms, store, inbox, badAuth, pending, response, open_db>>

\* disconnect that cancels the emits its sid has in progress.
disconnect_cancel_emits(c) ==
    /\ status[c] = "open"
    /\ status' = [status EXCEPT ![c] = "closed"]
    /\ session' = [session EXCEPT ![c] = NoSession]
    /\ rooms' = [r \in AllRooms |-> rooms[r] \ {c}]
    /\ pending' = [d \in Conns |-> SelectSeq(pending[d], LAMBDA e : e.by # c)]
    /\ Returned
    /\ UNCHANGED <<store, inbox, badAuth, response, open_db>>

\* --------------------------------------------------------- disconnect
\* The handler body is `pass`; the server takes the sid out of its rooms
\* and forgets its session.
disconnect(c) ==
    /\ status[c] = "open"
    /\ status' = [status EXCEPT ![c] = "closed"]
    /\ session' = [session EXCEPT ![c] = NoSession]
    /\ rooms' = [r \in AllRooms |-> rooms[r] \ {c}]
    /\ Returned
    /\ UNCHANGED <<store, inbox, badAuth, pending, response, open_db>>

\* --------------------------------------------------------------- join
\* What a room handler leaves behind: the rooms of sio, and the exception
\* that left the handler ("none" when it returned).
Outcome(rms, exc) == [rooms |-> rms, raised |-> exc]

\* join with its guard inverted: it returns when there is a session.
join_inverted_guard(c) ==
    LET sess == get_session(c)
    IN  IF sess.present
        THEN Outcome(rooms, "none")
        ELSE Outcome(enter_room(c, user_room(sess.user_id)), "none")

\* join that does not take the room name from the session: every caller
\* enters the room of user 1.
join_fixed_room(c) ==
    LET sess == get_session(c)
    IN  IF ~sess.present
        THEN Outcome(rooms, "none")
        ELSE Outcome(enter_room(c, user_room(1)), "none")

\* The body of join.
join_outcome(c) ==
    LET sess == get_session(c)
    IN  IF ~sess.present
        THEN Outcome(rooms, "none")
        ELSE Outcome(enter_room(c, user_room(sess.user_id)), "none")

join(c) ==
    /\ status[c] = "open"
    /\ rooms' = join_outcome(c).rooms
    /\ raised' = join_outcome(c).raised
    /\ commitFailed' = FALSE
    /\ UNCHANGED <<status, session, store, inbox, badAuth, pending, response, open_db>>

\* join_order_room that leaves the room when the sid is already in it.
join_order_room_toggle(c, data) ==
    LET sess == get_session(c)
        order_id == IF data.isdict THEN data.order_id ELSE None
    IN  IF ~sess.present \/ ~Truthy(order_id)
        THEN Outcome(rooms, "none")
        ELSE IF c \in rooms[order_room(order_id)]
        THEN Outcome(leave_room(c, order_room(order_id)), "none")
        ELSE Outcome(enter_room(c, order_room(order_id)), "none")

\* The body of join_order_room.
join_order_room_outcome(c, data) ==
    LET sess == get_session(c)
        order_id == IF data.isdict THEN data.order_id ELSE None
    IN  IF ~sess.present \/ ~Truthy(order_id)
        THEN Outcome(rooms, "none")
        ELSE Outcome(enter_room(c, order_room(order_id)), "none")

join_order_room(c, data) ==
    /\ status[c] = "open"
    /\ rooms' = join_order_room_outcome(c, data).rooms
    /\ raised' = join_order_room_outcome(c, data).raised
    /\ commitFailed' = FALSE
    /\ UNCHANGED <<status, session, store, inbox, badAuth, pending, response, open_db>>

\* The body of leave_order_room.
leave_order_room_outcome(c, data) ==
    LET order_id == IF data.isdict THEN data.order_id ELSE None
    IN  IF ~Truthy(order_id)
        THEN Outcome(rooms, "none")
        ELSE Outcome(leave_room(c, order_room(order_id)), "none")

leave_order_room(c, data) ==
    /\ status[c] = "open"
    /\ rooms' = leave_order_room_outcome(c, data).rooms
    /\ raised' = leave_order_room_outcome(c, data).raised
    /\ commitFailed' = FALSE
    /\ UNCHANGED <<status, session, store, inbox, badAuth, pending, response, open_db>>

\* --------------------------------------------------------------- send
\* serialize_message(m), without the created_at timestamp.
serialize_message(m) ==
    [id |-> m.id, user_id |-> m.user_id, direction |-> m.direction,
     text |-> m.text, order_id |-> m.order_id]

\* Message(user_id=..., username=..., direction='in', text=..., order_id=...);
\* db.add; db.commit; db.refresh: the record with the id the table gives it.
new_message(sess, text, order_id) ==
    [id |-> Len(store) + 1, user_id |-> sess.user_id, username |-> sess.username,
     direction |-> "in", text |-> text, order_id |-> order_id]

\* payload = serialize_message(msg); if client_msg_id: payload[...] = client_msg_id
with_client_id(payload, client_msg_id) ==
    [id |-> payload.id, user_id |-> payload.user_id, direction |-> payload.direction,
     text |-> payload.text, order_id |-> payload.order_id,
     has_client_message_id |-> Truthy(client_msg_id),
     client_message_id |-> IF Truthy(client_msg_id) THEN client_msg_id ELSE None]

\* emit that stops after the first sid of the room.
emit_first_only(event, payload, room) ==
    [c \in Conns |->
        IF c \in rooms[room] /\ \A d \in rooms[room] : c <= d
        THEN Append(inbox[c], [name |-> event, body |-> payload])
        ELSE inbox[c]]

\* emit without its room argument: the event goes to every connected sid.
emit_to_all(event, payload, room) ==
    [c \in Conns |->
        IF status[c] = "open"
        THEN Append(inbox[c], [name |-> event, body |-> payload])
        ELSE inbox[c]]

\* sio.emit(event, payload, room=room): the event on the channel of every
\* sid that is in the room now.
emit(event, payload, room) ==
    [c \in Conns |->
        IF c \in rooms[room]
        THEN Append(inbox[c], [name |-> event, body |-> payload])
        ELSE inbox[c]]

\* data.get('text', '') of a dict: the text, or '' when the key is absent.
text_or_default(data) == IF data.text.kind = "absent" THEN <<>> ELSE data.text.val

\* The handler ends without touching the store or any channel.
NoSend(exc) ==
    /\ raised' = exc
    /\ commitFailed' = FALSE
    /\ UNCHANGED <<store, inbox>>

\* persist_and_emit with the emit moved before the commit: the event goes
\* out although the commit raises.
emit_then_persist(sess, text, order_id, client_msg_id, event, room) ==
    \E commit_ok \in BOOLEAN :
        /\ Len(store) < MaxMsgs
        /\ LET msg == new_message(sess, text, order_id)
               payload == with_client_id(serialize_message(msg), client_msg_id)
           IN  /\ inbox' = emit(event, payload, room)
               /\ IF commit_ok
                  THEN store' = Append(store, msg) /\ Returned
                  ELSE /\ store' = store
                       /\ raised' = "SQLAlchemyError"
                       /\ commitFailed' = TRUE

\* persist_and_emit inside `except Exception: pass`: a failed commit is
\* swallowed.
persist_and_emit_swallow(sess, text, order_id, client_msg_id, event, room) ==
    \E commit_ok \in BOOLEAN :
        IF ~commit_ok
        THEN /\ raised' = "none"
             /\ commitFailed' = TRUE
             /\ UNCHANGED <<store, inbox>>
        ELSE /\ Len(store) < MaxMsgs
             /\ LET msg == new_message(sess, text, order_id)
                    payload == with_client_id(serialize_message(msg), client_msg_id)
                IN  /\ store' = Append(store, msg)
                    /\ inbox' = emit(event, payload, room)
             /\ Returned

\* persist_and_emit that adds the record to the session twice.
persist_twice_and_emit(sess, text, order_id, client_msg_id, event, room) ==
    \E commit_ok \in BOOLEAN :
        IF ~commit_ok
        THEN /\ raised' = "SQLAlchemyError"
             /\ commitFailed' = TRUE
             /\ UNCHANGED <<store, inbox>>
        ELSE /\ Len(store) < MaxMsgs
             /\ LET msg == new_message(sess, text, order_id)
                    payload == with_client_id(serialize_message(msg), client_msg_id)
                IN  /\ store' = Append(Append(store, msg), msg)
                    /\ inbox' = emit(event, payload, room)
             /\ Returned

\* Lines 58-66 and 75-83: persist, then broadcast.  An exception of
\* db.commit() leaves the try block before the emit; `finally` closes the
\* database session and the exception goes on to the caller.
persist_and_emit(sess, text, order_id, client_msg_id, event, room) ==
    \E commit_ok \in BOOLEAN :
        IF ~commit_ok
        THEN /\ raised' = "SQLAlchemyError"
             /\ commitFailed' = TRUE
             /\ UNCHANGED <<store, inbox>>
        ELSE /\ Len(store) < MaxMsgs
             /\ LET msg == new_message(sess, text, order_id)
                    payload == with_client_id(serialize_message(msg), client_msg_id)
                IN  /\ store' = Append(store, msg)
                    /\ inbox' = emit(event, payload, room)
             /\ Returned

send_message(c, data) ==
    /\ status[c] = "open"
    /\ LET sess == get_session(c)
       IN  IF ~sess.present
           THEN NoSend("none")
           ELSE IF ~data.isdict \/ data.text.kind \in {"null", "int"}
           THEN NoSend("AttributeError")       \* data.get or .strip() raises
           ELSE LET order_id == data.order_id
                    text == strip(text_or_default(data))
                    client_msg_id == data.client_message_id
                IN  IF ~Truthy(order_id) \/ text = <<>>
                    THEN NoSend("none")
                    ELSE persist_and_emit(sess, text, order_id, client_msg_id,
                                          "new_message", order_room(order_id))
    /\ UNCHANGED <<status, session, rooms, badAuth, pending, response, open_db>>

send_user_message(c, data) ==
    /\ status[c] = "open"
    /\ LET sess == get_session(c)
       IN  IF ~sess.present
           THEN NoSend("none")
           ELSE IF ~data.isdict \/ data.text.kind \in {"null", "int"}
           THEN NoSend("AttributeError")
           ELSE LET text == strip(text_or_default(data))
                    client_msg_id == data.client_message_id
                IN  IF text = <<>>
                    THEN NoSend("none")
                    ELSE persist_and_emit(sess, text, None, client_msg_id,
                                          "new_support_message",
                                          user_room(sess.user_id))
    /\ UNCHANGED <<status, session, rooms, badAuth, pending, response, open_db>>

\* ------------------------------------------------------ specification
Next ==
    \/ \E c \in Conns, auth \in AuthVals : connect(c, auth)
    \/ \E c \in Conns : disconnect(c)
    \/ \E c \in Conns : join(c)
    \/ \E c \in Conns, data \in RoomData : join_order_room(c, data)
    \/ \E c \in Conns, data \in RoomData : leave_order_room(c, data)
    \/ \E c \in Conns, data \in SendData : send_message(c, data)
    \/ \E c \in Conns, data \in SendData : send_user_message(c, data)

Spec == Init /\ [][Next]_vars

\* ------------------------------------------------- emit, step by step
\* `await sio.emit(...)` is the one suspension point of a send handler after
\* its commit: sio takes the sids of the room when it is called and hands
\* the event to the channel of each, and other handlers (a disconnect, a
\* second send) run meanwhile.  Here the call schedules one delivery per
\* sid of the room, and each delivery is a step of its own.

\* emit that puts the new event before the ones already scheduled.
schedule_in_front(event, payload, room, c) ==
    [d \in Conns |->
        IF d \in rooms[room]
        THEN <<[name |-> event, body |-> payload, by |-> c]>> \o pending[d]
        ELSE pending[d]]

\* sio.emit(event, payload, room=room), called by the handler of sid c: one
\* delivery scheduled for every sid that is in the room now.
schedule(event, payload, room, c) ==
    [d \in Conns |->
        IF d \in rooms[room]
        THEN Append(pending[d], [name |-> event, body |-> payload, by |-> c])
        ELSE pending[d]]

\* The database session of the handler that sid c runs for the record with
\* this id; `handler` tells whether that handler is still running.
DbSession(c, id) == [by |-> c, id |-> id, handler |-> "running"]

\* The sessions that handlers can hold.
DbSessions == {DbSession(c, id) : c \in Conns, id \in 1..MaxMsgs}

\* db = SessionLocal()
SessionLocal(h) == open_db \cup {h}

\* db.close() left out.
db_close_left_out(sessions, h) == sessions

\* finally: db.close()
db_close(sessions, h) == sessions \ {h}

\* The handler that opened h is over: a session it left open stays open.
handler_ended(sessions, h) ==
    {IF x = h THEN [x EXCEPT !.handler = "ended"] ELSE x : x \in sessions}

\* Lines 58-66 and 75-83 up to the suspension inside sio.emit.  The
\* database session is opened before the try block; when the commit raises,
\* `finally` closes it and the handler is over.
persist_and_schedule(c, sess, text, order_id, client_msg_id, event, room) ==
    \E commit_ok \in BOOLEAN :
        LET h == DbSession(c, Len(store) + 1)
        IN  IF ~commit_ok
            THEN /\ raised' = "SQLAlchemyError"
                 /\ commitFailed' = TRUE
                 /\ open_db' = handler_ended(db_close(SessionLocal(h), h), h)
                 /\ UNCHANGED <<store, pending>>
            ELSE /\ Len(store) < MaxMsgs
                 /\ LET msg == new_message(sess, text, order_id)
                        payload == with_client_id(serialize_message(msg), client_msg_id)
                    IN  /\ store' = Append(store, msg)
                        /\ pending' = schedule(event, payload, room, c)
                 /\ open_db' = SessionLocal(h)
                 /\ Returned

\* The handler ends before SessionLocal() of line 58 / 75.
NoSchedule(exc) ==
    /\ raised' = exc
    /\ commitFailed' = FALSE
    /\ UNCHANGED <<store, pending, open_db>>

\* send_message, up to the suspension inside sio.emit.
send_message_emit(c, data) ==
    /\ status[c] = "open"
    /\ LET sess == get_session(c)
       IN  IF ~sess.present
           THEN NoSchedule("none")
           ELSE IF ~data.isdict \/ data.text.kind \in {"null", "int"}
           THEN NoSchedule("AttributeError")
           ELSE LET order_id == data.order_id
                    text == strip(text_or_default(data))
                    client_msg_id == data.client_message_id
                IN  IF ~Truthy(order_id) \/ text = <<>>
                    THEN NoSchedule("none")
                    ELSE persist_and_schedule(c, sess, text, order_id, client_msg_id,
                                              "new_message", order_room(order_id))
    /\ UNCHANGED <<status, session, rooms, inbox, badAuth, response>>

\* send_user_message, up to the suspension inside sio.emit.
send_user_message_emit(c, data) ==
    /\ status[c] = "open"
    /\ LET sess == get_session(c)
       IN  IF ~sess.present
           THEN NoSchedule("none")
           ELSE IF ~data.isdict \/ data.text.kind \in {"null", "int"}
           THEN NoSchedule("AttributeError")
           ELSE LET text == strip(text_or_default(data))
                    client_msg_id == data.client_message_id
                IN  IF text = <<>>
                    THEN NoSchedule("none")
                    ELSE persist_and_schedule(c, sess, text, None, client_msg_id,
                                              "new_support_message",
                                              user_room(sess.user_id))
    /\ UNCHANGED <<status, session, rooms, inbox, badAuth, response>>

\* deliver that gives up the rest of the emit when one sid is gone: the
\* emit raises and the deliveries of that event still scheduled are lost.
deliver_or_abort(c) ==
    /\ pending[c] # <<>>
    /\ IF status[c] = "open"
       THEN /\ inbox' = [inbox EXCEPT ![c] =
                   Append(@, [name |-> Head(pending[c]).name,
                              body |-> Head(pending[c]).body])]
            /\ pending' = [pending EXCEPT ![c] = Tail(@)]
            /\ raised' = raised
       ELSE /\ inbox' = inbox
            /\ pending' = [d \in Conns |->
                   SelectSeq(pending[d],
                             LAMBDA e : e.body.id # Head(pending[c]).body.id)]
            /\ raised' = "Exception"
    /\ UNCHANGED <<status, session, rooms, store, commitFailed, badAuth, response, open_db>>

\* deliver that hands over the newest scheduled event first.
deliver_newest_first(c) ==
    /\ pending[c] # <<>>
    /\ LET n == Len(pending[c])
       IN  /\ inbox' = [inbox EXCEPT ![c] =
                  IF status[c] = "open"
                  THEN Append(@, [name |-> pending[c][n].name,
                                  body |-> pending[c][n].body])
                  ELSE @]
           /\ pending' = [pending EXCEPT ![c] = SubSeq(@, 1, n - 1)]
    /\ UNCHANGED <<status, session, rooms, store, raised, commitFailed, badAuth,
                   response, open_db>>

\* One delivery of an emit in progress: the next event scheduled for sid c
\* goes onto its channel; when c has disconnected meanwhile the event is
\* dropped for c alone, and the emit goes on.
deliver(c) ==
    /\ pending[c] # <<>>
    /\ inbox' = [inbox EXCEPT ![c] =
           IF status[c] = "open"
           THEN Append(@, [name |-> Head(pending[c]).name,
                           body |-> Head(pending[c]).body])
           ELSE @]
    /\ pending' = [pending EXCEPT ![c] = Tail(@)]
    /\ UNCHANGED <<status, session, rooms, store, raised, commitFailed, badAuth,
                   response, open_db>>

\* The deliveries of the emit of handler h that are still to be made.
Undelivered(h) ==
    {d \in Conns : \E k \in 1..Len(pending[d]) :
        pending[d][k].by = h.by /\ pending[d][k].body.id = h.id}

\* `await sio.emit(...)` of handler h is over, with or without an exception:
\* `finally` closes the database session and the handler is over.
emit_returns(h) ==
    /\ h \in open_db
    /\ h.handler = "running"
    /\ Undelivered(h) = {}
    /\ \E emit_ok \in BOOLEAN : raised' = IF emit_ok THEN "none" ELSE "Exception"
    /\ commitFailed' = FALSE
    /\ open_db' = handler_ended(db_close(open_db, h), h)
    /\ UNCHANGED <<status, session, rooms, store, inbox, badAuth, pending, response>>

\* ------------------------------------------------------ the HTTP API
\* The users table: user 1 is a client, user 2 an admin, no other row.
UserRole(uid) ==
    CASE uid = 1 -> "client"
      [] uid = 2 -> "admin"
      [] OTHER -> "none"

\* The orders table: order 1 belongs to user 1.
OrderOwner(oid) == IF oid = 1 THEN 1 ELSE None

\* Bearer tokens of the requests: of the admin, of a client, expired, and
\* signed but without a user_id.
HttpTokens ==
    {GoodToken(2), GoodToken(1), Token(TRUE, jwt_secret, TRUE, 2), GoodToken(None)}

\* What the admin puts in a message to a user.
AdminTexts == {<<"h">>}

\* get_current_user: the user of the token, or HTTP 401.
get_current_user(token) ==
    LET d == jwt_decode(token)
    IN  IF ~d.ok \/ d.user_id = None \/ UserRole(d.user_id) = "none"
        THEN [ok |-> FALSE, code |-> 401, id |-> None]
        ELSE [ok |-> TRUE, code |-> 200, id |-> d.user_id]

\* get_current_admin: that user when its role is admin, or HTTP 403.
get_current_admin(token) ==
    LET user == get_current_user(token)
    IN  IF user.ok /\ UserRole(user.id) # "admin"
        THEN [ok |-> FALSE, code |-> 403, id |-> None]
        ELSE user

\* A dependency raised HTTPException: the endpoint body does not run.
Denied ==
    /\ raised' = "HTTPException"
    /\ commitFailed' = FALSE
    /\ UNCHANGED <<store, inbox>>

\* Message(user_id=user_id, username='admin', direction='out', text=message,
\* order_id=order_id)
admin_message(user_id, message, order_id) ==
    [id |-> Len(store) + 1, user_id |-> user_id, username |-> "admin",
     direction |-> "out", text |-> message, order_id |-> order_id]

\* POST /api/send_message_to_user of main.py: db.add; db.commit; return.
\* No event is emitted.
send_message_to_user(token, user_id, message, order_id) ==
    /\ IF ~get_current_admin(token).ok
       THEN Denied
       ELSE \E commit_ok \in BOOLEAN :
               IF ~commit_ok
               THEN /\ raised' = "SQLAlchemyError"
                    /\ commitFailed' = TRUE
                    /\ UNCHANGED <<store, inbox>>
               ELSE /\ Len(store) < MaxMsgs
                    /\ store' = Append(store, admin_message(user_id, message, order_id))
                    /\ inbox' = inbox
                    /\ Returned
    /\ UNCHANGED <<status, session, rooms, badAuth, pending, response, open_db>>

\* [serialize_message(m) for m in msgs]
serialize_all(msgs) == [i \in 1..Len(msgs) |-> serialize_message(msgs[i])]

\* The body of GET /api/messages: the support messages, of one user when
\* user_id is given.
admin_messages_body(user_id) ==
    LET keep(m) == m.order_id = None /\ (Truthy(user_id) => m.user_id = user_id)
    IN  serialize_all(SelectSeq(store, keep))

\* GET /api/messages: a query, no write.
admin_messages(token, user_id) ==
    /\ IF ~get_current_admin(token).ok
       THEN Denied
       ELSE /\ Len(admin_messages_body(user_id)) <= Len(store)
            /\ Returned
            /\ UNCHANGED <<store, inbox>>
    /\ UNCHANGED <<status, session, rooms, badAuth, pending, response, open_db>>

\* The body of GET /api/client/order/{order_id}/messages.
client_order_messages_body(order_id) ==
    LET keep(m) == m.order_id = order_id
    IN  serialize_all(SelectSeq(store, keep))

\* GET /api/client/order/{order_id}/messages: 404 unless the order is the
\* caller's; a query, no write.
client_order_messages(token, order_id) ==
    /\ LET user == get_current_user(token)
       IN  IF ~user.ok \/ OrderOwner(order_id) # user.id
           THEN Denied
           ELSE /\ Len(client_order_messages_body(order_id)) <= Len(store)
                /\ Returned
                /\ UNCHANGED <<store, inbox>>
    /\ UNCHANGED <<status, session, rooms, badAuth, pending, response, open_db>>

HttpNext ==
    \/ \E token \in HttpTokens, user_id \in Users, message \in AdminTexts :
            send_message_to_user(token, user_id, message, None)
    \/ \E token \in HttpTokens, user_id \in Users \cup {None} :
            admin_messages(token, user_id)
    \/ \E token \in HttpTokens, order_id \in Orders \cup {2} :
            client_order_messages(token, order_id)

\* The socket events that run beside the HTTP requests: connects with a
\* valid token of each user and with no token, joins and leaves of the order
\* room, well-formed sends.
BasicAuthVals ==
    {Auth(TRUE, TRUE, GoodToken(u)) : u \in Users} \cup {Auth(TRUE, FALSE, GoodToken(1))}
BasicRoomData == {Data(TRUE, o, Text("absent", <<>>), None) : o \in Orders}
BasicSendData == {Data(TRUE, o, t, 7) : o \in Orders, t \in GoodTexts}

SocketNext ==
    \/ \E c \in Conns, auth \in BasicAuthVals : connect(c, auth)
    \/ \E c \in Conns : disconnect(c)
    \/ \E c \in Conns : join(c)
    \/ \E c \in Conns, data \in BasicRoomData : join_order_room(c, data)
    \/ \E c \in Conns, data \in BasicRoomData : leave_order_room(c, data)
    \/ \E c \in Conns, data \in BasicSendData : send_message(c, data)
    \/ \E c \in Conns, data \in BasicSendData : send_user_message(c, data)

\* The socket handlers together with the HTTP endpoints that write or read
\* the messages table.
HttpSpec == Init /\ [][SocketNext \/ HttpNext]_vars

\* The socket handlers with emit taken step by step.  The event loop runs
\* every scheduled delivery, hence the fairness of deliver.
FanoutNext ==
    \/ \E c \in Conns, auth \in BasicAuthVals : connect(c, auth)
    \/ \E c \in Conns : disconnect(c)
    \/ \E c \in Conns : join(c)
    \/ \E c \in Conns, data \in BasicRoomData : join_order_room(c, data)
    \/ \E c \in Conns, data \in BasicRoomData : leave_order_room(c, data)
    \/ \E c \in Conns, data \in BasicSendData : send_message_emit(c, data)
    \/ \E c \in Conns, data \in BasicSendData : send_user_message_emit(c, data)
    \/ \E c \in Conns : deliver(c)
    \/ \E h \in DbSessions : emit_returns(h)

FanoutSpec ==
    Init /\ [][FanoutNext]_vars /\ \A c \in Conns : WF_vars(deliver(c))

\* ------------------------------------------------------ the Flask app
\* The Authorization header of a request: absent, of another scheme, or
\* "Bearer <token>".
Header(kind, token) == [kind |-> kind, token |-> token]

\* The tokens of the requests: malformed, signed with another key, expired,
\* and valid ones without user_id, with user_id 0, of the client, of the
\* admin and of a user that has no row.
FlaskTokens ==
    {Token(FALSE, jwt_secret, FALSE, 2), Token(TRUE, "other", FALSE, 2),
     Token(TRUE, jwt_secret, TRUE, 2)}
        \cup {GoodToken(u) : u \in {None, 0, 1, 2, 3}}

Headers ==
    {Header("absent", GoodToken(2)), Header("basic", GoodToken(2))}
        \cup {Header("bearer", t) : t \in FlaskTokens}

\* jsonify({"error": error}), code: an answer of the decorator itself.
Refusal(code, error) == [ok |-> FALSE, code |-> code, error |-> error]

\* token_required without the check of the role.
token_required_no_role(admin, header) ==
    IF header.kind # "bearer"
    THEN Refusal(401, "Missing token")
    ELSE LET d == jwt_decode(header.token)
         IN  IF ~d.ok
             THEN Refusal(401, "Invalid token")
             ELSE IF ~Truthy(d.user_id)
             THEN Refusal(401, "Invalid payload")
             ELSE IF UserRole(d.user_id) = "none"
             THEN Refusal(401, "User not found")
             ELSE [ok |-> TRUE, code |-> 200, error |-> ""]

\* token_required(admin): the answer of the decorator, or ok when the
\* wrapped handler is to run.
token_required(admin, header) ==
    IF header.kind # "bearer"
    THEN Refusal(401, "Missing token")
    ELSE LET d == jwt_decode(header.token)
         IN  IF ~d.ok
             THEN Refusal(401, "Invalid token")
             ELSE IF ~Truthy(d.user_id)
             THEN Refusal(401, "Invalid payload")
             ELSE IF UserRole(d.user_id) = "none"
             THEN Refusal(401, "User not found")
             ELSE IF admin /\ UserRole(d.user_id) # "admin"
             THEN Refusal(403, "Admin only")
             ELSE [ok |-> TRUE, code |-> 200, error |-> ""]

\* The decorator answered: the handler does not run.
Refused(gate) ==
    /\ response' = [code |-> gate.code, error |-> gate.error, ran |-> "none"]
    /\ Returned
    /\ store' = store

\* The JSON body of POST /api/send_message_to_user: user_id, message and
\* order_id, each present or not.
FlaskBodies ==
    {[user_id |-> u, message |-> m, order_id |-> o] :
        u \in Users \cup {None}, m \in {<<"h">>, <<" ">>}, o \in Orders \cup {None}}

\* POST /api/send_message_to_user of flask_app.py.
flask_send_message_to_user(header, body) ==
    /\ LET gate == token_required(TRUE, header)
           text == strip(body.message)
       IN  IF ~gate.ok
           THEN Refused(gate)
           ELSE IF ~Truthy(body.user_id) \/ text = <<>>
           THEN /\ response' = [code |-> 400, error |-> "Missing user_id or message",
                                ran |-> "send_message_to_user"]
                /\ Returned
                /\ store' = store
           ELSE \E commit_ok \in BOOLEAN :
                   IF ~commit_ok
                   THEN /\ response' = [code |-> 500, error |-> "",
                                        ran |-> "send_message_to_user"]
                        /\ raised' = "SQLAlchemyError"
                        /\ commitFailed' = TRUE
                        /\ store' = store
                   ELSE /\ Len(store) < MaxMsgs
                        /\ store' = Append(store,
                               admin_message(body.user_id, text, body.order_id))
                        /\ response' = [code |-> 200, error |-> "",
                                        ran |-> "send_message_to_user"]
                        /\ Returned
    /\ UNCHANGED <<status, session, rooms, inbox, badAuth, pending, open_db>>

\* The files under UPLOAD_ROOT, and the names requests ask for.
UploadedFiles == {"a.txt"}
FileNames == {"a.txt", "b.txt"}

\* GET /api/download_file/<filename> of flask_app.py.
download_file(header, filename) ==
    /\ LET gate == token_required(TRUE, header)
       IN  IF ~gate.ok
           THEN Refused(gate)
           ELSE /\ response' =
                       IF filename \in UploadedFiles
                       THEN [code |-> 200, error |-> "", ran |-> "download_file"]
                       ELSE [code |-> 404, error |-> "Not found", ran |-> "download_file"]
                /\ Returned
                /\ store' = store
    /\ UNCHANGED <<status, session, rooms, inbox, badAuth, pending, open_db>>

FlaskNext ==
    \/ \E header \in Headers, body \in FlaskBodies :
            flask_send_message_to_user(header, body)
    \/ \E header \in Headers, filename \in FileNames : download_file(header, filename)

FlaskSpec == Init /\ [][FlaskNext]_vars

\* ====================================================================
\* Vocabulary of the properties
\* ====================================================================
\* The room a stored message is addressed to: its order's room, or the
\* personal room of its user when it has no order id.
RoomOf(m) == IF m.order_id = None THEN <<"user_", Str(m.user_id)>>
             ELSE <<"order_", Str(m.order_id)>>

\* The event that announces a stored message.
EventOf(m) == IF m.order_id = None THEN "new_support_message" ELSE "new_message"

\* Event e carries the id, user id, direction, text and order id of record m.
Carries(e, m) ==
    /\ e.body.id = m.id
    /\ e.body.user_id = m.user_id
    /\ e.body.direction = m.direction
    /\ e.body.text = m.text
    /\ e.body.order_id = m.order_id

\* This step committed one more record; it is Stored'.
Persisted == Len(store') = Len(store) + 1
Stored == store[Len(store)]

\* In this step exactly one event was put on the channel of c, after the
\* ones it already held.
GotOne(c) ==
    /\ Len(inbox'[c]) = Len(inbox[c]) + 1
    /\ SubSeq(inbox'[c], 1, Len(inbox[c])) = inbox[c]
NewEvent(c) == inbox'[c][Len(inbox'[c])]

InNoRoom(c) == \A r \in AllRooms : c \notin rooms[r]

\* ====================================================================
\* C1: every event on a connection's channel carries the id, user id,
\* direction, text and order id of exactly one record of the store, and an
\* event is put on a channel only by a step after which its record is in
\* the store.
\* ====================================================================
C1_DeliveredIsStored ==
    \A c \in Conns : \A k \in 1..Len(inbox[c]) :
        /\ Cardinality({i \in 1..Len(store) : store[i].id = inbox[c][k].body.id}) = 1
        /\ Cardinality({i \in 1..Len(store) : Carries(inbox[c][k], store[i])}) = 1
        /\ inbox[c][k].name \in {"new_message", "new_support_message"}

C1_Witness ==
    /\ \E c \in Conns : \E k \in 1..Len(inbox[c]) : inbox[c][k].name = "new_message"
    /\ \E c \in Conns : \E k \in 1..Len(inbox[c]) :
            inbox[c][k].name = "new_support_message"

\* ====================================================================
\* C2: a connection whose connect carried no token, or a malformed,
\* wrongly signed or expired one, is refused: it has no session, is in no
\* room, holds no event, and no handler can run for it.
\* ====================================================================
C2_InvalidRefused ==
    \A c \in Conns :
        badAuth[c] =>
            /\ status[c] = "refused"
            /\ ~session[c].present
            /\ InNoRoom(c)
            /\ inbox[c] = <<>>
            /\ ~ENABLED join(c)
            /\ \A data \in RoomData : ~ENABLED join_order_room(c, data)
            /\ \A data \in SendData :
                    /\ ~ENABLED send_message(c, data)
                    /\ ~ENABLED send_user_message(c, data)

C2_Witness ==
    /\ \E c \in Conns : badAuth[c] /\ status[c] = "refused"
    /\ Len(store) > 0

C4_EveryMemberGetsOne ==
    [][Persisted =>
          \A c \in rooms[RoomOf(Stored')] :
              /\ GotOne(c)
              /\ NewEvent(c).name = EventOf(Stored')
              /\ Carries(NewEvent(c), Stored')]_vars

\* Two connections of one room hold the event of the same message.
C4_Witness ==
    \E c, d \in Conns :
        /\ c # d
        /\ inbox[c] # <<>>
        /\ inbox[d] # <<>>
        /\ inbox[c][1] = inbox[d][1]
        /\ inbox[c][1].body.text = <<"a">>

\* ====================================================================
\* C5: a connection gets an event only in the step that persists a
\* message for a room it is a member of in that step; a connection outside
\* the room, or one that joins the room later, gets nothing for it.
\* ====================================================================
C5_NonMembersGetNothing ==
    [][\A c \in Conns :
          inbox'[c] # inbox[c] =>
              /\ Persisted
              /\ c \in rooms[RoomOf(Stored')]
              /\ GotOne(c)
              /\ Carries(NewEvent(c), Stored')]_vars

\* A connection is now in the room of a stored message, holds no event for
\* it, and another connection holds that event.
C5_Witness ==
    \E c, d \in Conns : \E i \in 1..Len(store) :
        /\ status[c] = "open"
        /\ c \in rooms[RoomOf(store[i])]
        /\ \A k \in 1..Len(inbox[c]) : inbox[c][k].body.id # store[i].id
        /\ \E k \in 1..Len(inbox[d]) : inbox[d][k].body.id = store[i].id

\* ====================================================================
\* C6: when db.commit() of a send raises, nothing is stored, no event is
\* put on any channel, and the exception leaves the handler.
\* ====================================================================
C6_CommitFailureAborts ==
    [][commitFailed' =>
          /\ store' = store
          /\ inbox' = inbox
          /\ raised' = "SQLAlchemyError"]_vars

\* A commit failed while a room had members to broadcast to.
C6_Witness ==
    /\ commitFailed
    /\ raised = "SQLAlchemyError"
    /\ \E c \in Conns : c \in rooms[<<"order_", "1">>]

\* ====================================================================
\* C7: a disconnected connection is in no room and gets no event any
\* more; a later send whose commit succeeds still reaches every member of
\* the room and ends without an exception.
\* ====================================================================
C7_DisconnectedGetsNothing ==
    [][\A c \in Conns :
          status'[c] = "closed" =>
              /\ \A r \in AllRooms : c \notin rooms'[r]
              /\ inbox'[c] = inbox[c]
              /\ Persisted =>
                    /\ raised' = "none"
                    /\ \A d \in rooms[RoomOf(Stored')] :
                          d # c /\ GotOne(d) /\ Carries(NewEvent(d), Stored')]_vars

\* c got the first message of a room and is closed; the second message of
\* that room reached d and not c.
C7_Witness ==
    \E c, d \in Conns :
        /\ status[c] = "closed"
        /\ Len(store) = 2
        /\ RoomOf(store[1]) = RoomOf(store[2])
        /\ Len(inbox[c]) = 1
        /\ inbox[c][1].body.id = 1
        /\ Len(inbox[d]) = 2
        /\ raised = "none"

\* ====================================================================
\* C9: for an authenticated connection c and an order room R, handling
\* join_order_room(R) leaves c a member of R and handling
\* leave_order_room(R) leaves c outside R, whatever the membership was
\* before, and neither raises; a step that changes whether c is in R is one
\* of these two on R, or the disconnect of c.  So c is in R exactly when
\* its last event on R is a join.
\* ====================================================================
C9_LastJoinLeaveDecides ==
    /\ [](\A c \in Conns : \A o \in Orders :
            LET R == <<"order_", Str(o)>>
                data == Data(TRUE, o, Text("absent", <<>>), None)
            IN  status[c] = "open" =>
                    /\ c \in join_order_room_outcome(c, data).rooms[R]
                    /\ join_order_room_outcome(c, data).raised = "none"
                    /\ c \notin leave_order_room_outcome(c, data).rooms[R]
                    /\ leave_order_room_outcome(c, data).raised = "none")
    /\ [][\A c \in Conns : \A o \in Orders :
            LET R == <<"order_", Str(o)>>
                data == Data(TRUE, o, Text("absent", <<>>), None)
            IN  ((c \in rooms'[R]) # (c \in rooms[R])) =>
                    \/ join_order_room(c, data)
                    \/ leave_order_room(c, data)
                    \/ disconnect(c)]_vars

\* One connection is in the order room and another, still open, is not.
C9_Witness ==
    \E c, d \in Conns :
        /\ status[c] = "open" /\ status[d] = "open"
        /\ c \in rooms[<<"order_", "1">>]
        /\ d \notin rooms[<<"order_", "1">>]
        /\ inbox[d] # <<>>

\* ====================================================================
\* C10: every event of a send whose payload supplies client_message_id = X
\* carries client_message_id = X, for every X; the event of a send whose
\* payload has no client_message_id has no such field.
\* ====================================================================
C10_ClientIdEchoed ==
    [][\A c \in Conns : \A data \in SendData :
          ((send_message(c, data) \/ send_user_message(c, data)) /\ Persisted) =>
              \A d \in Conns :
                  inbox'[d] # inbox[d] =>
                      IF data.client_message_id = None
                      THEN ~NewEvent(d).body.has_client_message_id
                      ELSE /\ NewEvent(d).body.has_client_message_id
                           /\ NewEvent(d).body.client_message_id
                                  = data.client_message_id]_vars

\* ====================================================================
\* C11: a send whose text is empty or only whitespace stores nothing, puts
\* no event on any channel and raises nothing; the text of every message
\* stored by a socket send is the text of the request without its leading
\* and trailing whitespace, and is not empty.
\* ====================================================================
\* The text field is a string of whitespace only, or is left out.
BlankText(t) ==
    \/ t.kind = "absent"
    \/ t.kind = "str" /\ \A i \in 1..Len(t.val) : t.val[i] = " "

\* t is s without the whitespace at its two ends.
IsTrimOf(t, s) ==
    \E i \in 1..(Len(s) + 1) : \E j \in 0..Len(s) :
        /\ t = SubSeq(s, i, j)
        /\ \A k \in 1..(i - 1) : s[k] = " "
        /\ \A k \in (j + 1)..Len(s) : s[k] = " "
        /\ t # <<>> => (t[1] # " " /\ t[Len(t)] # " ")

\* The send payloads whose text is blank.
BlankSends == {d \in SendData : d.isdict /\ BlankText(d.text)}

\* The texts that requests carry as strings.
RequestTexts == {d.text.val : d \in {e \in SendData : e.isdict /\ e.text.kind = "str"}}

\* The step stores nothing, puts no event on a channel and raises nothing.
SilentNoOp == store' = store /\ inbox' = inbox /\ raised' = "none"

C11_BlankTextDropped ==
    /\ \A i \in 1..Len(store) :
            store[i].direction = "in" =>
                /\ store[i].text # <<>>
                /\ \E s \in RequestTexts : IsTrimOf(store[i].text, s)
    /\ \A c \in Conns : \A data \in BlankSends :
            status[c] = "open" =>
                /\ ENABLED send_message(c, data)
                /\ ENABLED send_user_message(c, data)
                /\ ~ENABLED (send_message(c, data) /\ ~SilentNoOp)
                /\ ~ENABLED (send_user_message(c, data) /\ ~SilentNoOp)

\* A message whose request text had whitespace at both ends is stored, and
\* its sender can now send a text of whitespace only.
C11_Witness ==
    \E c \in Conns :
        /\ status[c] = "open"
        /\ session[c].present
        /\ \E i \in 1..Len(store) : store[i].text = <<"a">>
        /\ Len(store) < MaxMsgs
        /\ raised = "none"
        /\ ENABLED (/\ send_message(c, Data(TRUE, 1, Text("str", <<" ">>), 7))
                    /\ store' = store)

\* ====================================================================
\* C12: a join_order_room, leave_order_room, send_message or
\* send_user_message event whose payload is not a structured object, lacks
\* order_id or text, or holds a null or non-text value in one of them, is a
\* silent no-op: no exception, no event, no record, sessions and rooms as
\* they were.
\* ====================================================================
MalformedRoomData == {d \in RoomData : ~d.isdict \/ d.order_id = None}

MalformedSends ==
    {d \in SendData :
        \/ ~d.isdict
        \/ d.order_id = None
        \/ d.text.kind \in {"absent", "null", "int"}}

\* The step is a silent no-op.
NothingHappens == SilentNoOp /\ rooms' = rooms /\ session' = session

C12_MalformedIsSilent ==
    \A c \in Conns :
        status[c] = "open" =>
            /\ \A data \in MalformedRoomData :
                    /\ ~ENABLED (join_order_room(c, data) /\ ~NothingHappens)
                    /\ ~ENABLED (leave_order_room(c, data) /\ ~NothingHappens)
            /\ \A data \in MalformedSends :
                    /\ ~ENABLED (send_message(c, data) /\ ~NothingHappens)
                    /\ \/ data.isdict /\ data.order_id = None /\ data.text.kind = "str"
                       \/ ~ENABLED (send_user_message(c, data) /\ ~NothingHappens)

\* ====================================================================
\* C13: when staff sends a support message with text T to user U1, every
\* connection in the personal room of U1 gets a new_support_message event
\* with text T and direction "out", and the record has direction "out"; a
\* message sent by the end user over the socket is stored and delivered
\* with direction "in".
\* ====================================================================
C13_StaffMessageDelivered ==
    [][Persisted =>
          IF Stored'.username = "admin"
          THEN /\ Stored'.direction = "out"
               /\ Stored'.order_id = None =>
                      \A c \in rooms[<<"user_", Str(Stored'.user_id)>>] :
                          /\ GotOne(c)
                          /\ NewEvent(c).name = "new_support_message"
                          /\ NewEvent(c).body.text = Stored'.text
                          /\ NewEvent(c).body.direction = "out"
          ELSE /\ Stored'.direction = "in"
               /\ \A c \in Conns :
                      inbox'[c] # inbox[c] => NewEvent(c).body.direction = "in"]_vars

\* ====================================================================
\* C14: of two messages of one room, the one persisted first reaches every
\* connection that gets both before the other, also when the two emits are
\* in progress at the same time.
\* ====================================================================
\* The place in the table of the record that event e announces.
PlaceOf(e) == CHOOSE i \in 1..Len(store) : Carries(e, store[i])

C14_PersistOrderKept ==
    \A c \in Conns : \A k, l \in 1..Len(inbox[c]) :
        (/\ k < l
         /\ \E i \in 1..Len(store) : Carries(inbox[c][k], store[i])
         /\ \E i \in 1..Len(store) : Carries(inbox[c][l], store[i])
         /\ RoomOf(store[PlaceOf(inbox[c][k])]) = RoomOf(store[PlaceOf(inbox[c][l])]))
            => PlaceOf(inbox[c][k]) < PlaceOf(inbox[c][l])

\* One connection holds both events of a room while, for another one, the
\* deliveries of both are still to come: the two emits overlapped.
C14_Witness ==
    \E c, d \in Conns :
        /\ c # d
        /\ Len(inbox[c]) = 2
        /\ Len(pending[d]) = 2
        /\ RoomOf(store[1]) = RoomOf(store[2])

\* ====================================================================
\* C15: the disconnect of a connection leaves the emits in progress as
\* they are, those of its own sends included; every delivery that is
\* scheduled for a connection is made unless that connection closes.
\* ====================================================================
C15_FanoutSurvivesDisconnect ==
    /\ \A c \in Conns : \A i \in 1..MaxMsgs :
            (\E k \in 1..Len(pending[c]) : pending[c][k].body.id = i)
                ~> (\/ \E k \in 1..Len(inbox[c]) : inbox[c][k].body.id = i
                    \/ status[c] = "closed")
    /\ [][\A c \in Conns :
            (status[c] = "open" /\ status'[c] = "closed") =>
                pending' = pending]_vars

\* The sender of a message is closed while the event is still to be
\* delivered to another connection, which is open.
C15_Witness ==
    \E c, d \in Conns :
        /\ c # d
        /\ status[c] = "closed"
        /\ status[d] = "open"
        /\ \E k \in 1..Len(pending[d]) : pending[d][k].by = c

\* ====================================================================
\* C16: a delivery that fails because its connection has closed is
\* dropped for that connection alone: the record stays in the table, the
\* deliveries scheduled for the others and what they hold stay as they
\* are, and no exception arises.
\* ====================================================================
C16_FailedDeliveryIsLocal ==
    /\ [](\A c \in Conns : \A k \in 1..Len(pending[c]) :
            /\ pending[c][k].body.id \in 1..Len(store)
            /\ Carries(pending[c][k], store[pending[c][k].body.id]))
    /\ [][\A c \in Conns :
            (status[c] = "closed" /\ Len(pending'[c]) < Len(pending[c])) =>
                /\ pending'[c] = Tail(pending[c])
                /\ \A d \in Conns \ {c} : pending'[d] = pending[d]
                /\ inbox' = inbox
                /\ store' = store
                /\ raised' = raised]_vars

\* A connection has closed with a delivery still scheduled for it, the
\* next to fail; another connection, open, already holds that event.
C16_Witness ==
    \E c, d \in Conns :
        /\ status[c] = "closed"
        /\ pending[c] # <<>>
        /\ status[d] = "open"
        /\ \E k \in 1..Len(inbox[d]) : inbox[d][k].body = Head(pending[c]).body

\* ====================================================================
\* C17: every session holds a verified identity: an admitted connection
\* has a session with a user id and a display name, and no record stored by
\* a socket send has an absent sender user id.
\* ====================================================================
C17_SessionHasIdentity ==
    /\ \A c \in Conns :
            /\ status[c] = "open" <=> session[c].present
            /\ session[c].present =>
                   /\ session[c].user_id # None
                   /\ session[c].username # "None"
    /\ \A i \in 1..Len(store) :
            store[i].direction = "in" => store[i].user_id # None

\* ====================================================================
\* C18: the messages table is append-only: a step leaves every record
\* that exists as it is and adds at most one; an accepted send adds exactly
\* one record, with an id of its own; connect, join, leave, disconnect, a
\* dropped or failed send and the history endpoints add none.
\* ====================================================================
C18_AppendOnly ==
    /\ [](\A i \in 1..Len(store) : store[i].id = i)
    /\ [][/\ Len(store') \in {Len(store), Len(store) + 1}
          /\ SubSeq(store', 1, Len(store)) = store
          /\ (inbox' # inbox) => Persisted
          /\ (Persisted => raised' = "none")
          /\ (raised' # "none" \/ status' # status \/ rooms' # rooms) =>
                 store' = store]_vars

\* The table holds a record of a socket send and one of the admin, and a
\* history request has just been refused.
C18_Witness ==
    /\ Len(store) = 2
    /\ store[1].direction = "in"
    /\ store[2].direction = "out"
    /\ raised = "HTTPException"

\* ====================================================================
\* C19: a handler behind token_required(admin=True) runs only for a
\* request with a Bearer token that decodes, whose payload has a user_id,
\* whose user exists and is an admin; any other request is answered 401
\* (no or invalid token, no user_id, unknown user) or 403 (not an admin),
\* the handler does not run and the tables stay as they are.
\* ====================================================================
\* The request is one of an existing admin.
FromAdmin(header) ==
    /\ header.kind = "bearer"
    /\ header.token.wf
    /\ header.token.key = jwt_secret
    /\ ~header.token.expired
    /\ header.token.user_id = 2

\* The request carries a good token of an existing user.
FromUser(header) ==
    /\ header.kind = "bearer"
    /\ header.token.wf
    /\ header.token.key = jwt_secret
    /\ ~header.token.expired
    /\ header.token.user_id \in {1, 2}

C19_AdminGate ==
    [][\A header \in Headers :
          (\/ \E body \in FlaskBodies : flask_send_message_to_user(header, body)
           \/ \E filename \in FileNames : download_file(header, filename)) =>
              IF FromAdmin(header)
              THEN response'.ran # "none"
              ELSE /\ response'.ran = "none"
                   /\ response'.code = IF FromUser(header) THEN 403 ELSE 401
                   /\ store' = store]_vars

\* A request of a client has just been answered 403 while the table holds
\* a message an admin request stored before.
C19_Witness ==
    /\ response.code = 403
    /\ response.ran = "none"
    /\ Len(store) = 1

\* ====================================================================
\* C20: a connection is a member of a personal room user_<U> only while
\* it is open with a session whose user id is U, and every
\* new_support_message event an open connection holds is of a message sent
\* by its own user: joins, leaves and sends of other users never put a
\* connection into user_<U> or an event of U's support room on its channel.
\* ====================================================================
PersonalRooms == {<<"user_", Str(u)>> : u \in Users \cup {None}}

C20_PersonalRoomsIsolated ==
    \A c \in Conns :
        /\ \A r \in PersonalRooms :
               c \in rooms[r] =>
                   /\ status[c] = "open"
                   /\ r = <<"user_", Str(session[c].user_id)>>
        /\ status[c] = "open" =>
               \A k \in 1..Len(inbox[c]) :
                   inbox[c][k].name = "new_support_message" =>
                       /\ inbox[c][k].body.user_id = session[c].user_id
                       /\ inbox[c][k].body.order_id = None

\* Connections of two different users are each in their own personal room,
\* and one of them holds a support message the other does not.
C20_Witness ==
    \E c, d \in Conns :
        /\ session[c].user_id = 1 /\ c \in rooms[<<"user_", "1">>]
        /\ session[d].user_id = 2 /\ d \in rooms[<<"user_", "2">>]
        /\ \E k \in 1..Len(inbox[c]) : inbox[c][k].name = "new_support_message"
        /\ \A k \in 1..Len(inbox[d]) : inbox[d][k].name # "new_support_message"
        /\ c \in rooms[<<"order_", "1">>] /\ d \in rooms[<<"order_", "1">>]

=============================================================================
